---- MODULE Spec2Model ----
(***************************************************************************)
(* Submission and scoring engine of the 0XCTF25 platform: the rateLimit    *)
(* middleware, the POST /api/challenges/:id/submit and                     *)
(* POST /api/challenges/:id/hints/:index handlers of the route layer, and  *)
(* the DatabaseStorage operations they call.  Every await of a handler is  *)
(* a point where other requests may run, so a handler is a sequence of     *)
(* steps, one per store round trip.                                        *)
(***************************************************************************)
EXTENDS Integers, Sequences, FiniteSets, TLC

VARIABLES
    now,             \* Date.now(), milliseconds
    rateLimitStore,  \* Map key -> {count, resetTime}
    admitted,        \* per key, the times at which rateLimit called next()
    users,           \* users table: id -> row
    challenges,      \* challenges table: id -> row
    submissions,     \* submissions table, in insertion order
    solves,          \* solves table, in insertion order
    hintUsage,       \* hint_usage table, in insertion order
    req,             \* the requests: position, locals and response of each
    reply            \* the response to the last read request (GET)

vars == <<now, rateLimitStore, admitted, users, challenges, submissions,
          solves, hintUsage, req, reply>>

store == <<users, challenges, submissions, solves, hintUsage>>

-----------------------------------------------------------------------------
(* Bounds of the model *)

MaxReq == 2          \* requests that may be in flight together
MaxSolveRows == 1    \* Solve rows of one principal in the tables a read starts from

(* Program constants *)

maxAttempts == 10
DefaultLimit == 50
windowMs == 60 * 1000

-----------------------------------------------------------------------------
(* Inputs *)

Users == {"u1", "u2"}                  \* the players who send requests
AllUsers == Users \cup {"u3"}          \* every row of the users table
ChalIds == {"c1"}
Flags == {"", "flag{yes}", "flag{no}"}
HintIndexes == {0, 1, 2}
Instants == {0, 1, 60000, 60001}   \* the times at which requests arrive
Reqs == 1 .. MaxReq
Callers == AllUsers \cup {"anon"}      \* "anon": no session, !req.isAuthenticated()
Scores == {0, 100}
LimitQueries == {0, 1, 2, 3}           \* ?limit=..., 0 also standing for none / NaN
PublishedQueries == {"", "true", "false"}
\* req.params.index as it stands in the URL, character by character
IndexParams == {<<"0">>, <<"1">>, <<"2">>, <<"-", "1">>, <<"a", "b", "c">>,
                <<"1", "a", "b", "c">>}
UserIds == AllUsers \cup {"u0"}         \* "u0": no such user
ChallengeIds == ChalIds \cup {"c0"}     \* "c0": no such challenge

-----------------------------------------------------------------------------
(* Flag verifier *)

hashPassword(flag) == <<"hash", flag>>

\* a stored hash that is not of the form hashPassword gives
Malformed == <<"malformed">>

\* the verifier raises an error instead of giving a verdict
comparePasswordsThrows(supplied, stored) ==
    ~(Len(stored) = 2 /\ stored[1] = "hash")

comparePasswords(supplied, stored) == stored = hashPassword(supplied)

-----------------------------------------------------------------------------
(* Throttle *)

RateKey(userId, challengeId) == <<userId, challengeId>>

CeilDiv(a, b) == -((-a) \div b)

\* the window never reopens: the elapsed-window test is dropped
rateLimit_neverResets(rls, key, t) ==
    IF key \notin DOMAIN rls
    THEN [rls |-> [k \in DOMAIN rls \cup {key} |->
                      IF k = key THEN [count |-> 1, resetTime |-> t + windowMs]
                                 ELSE rls[k]],
          next |-> TRUE, status |-> 0, retryAfter |-> 0]
    ELSE IF rls[key].count >= maxAttempts
    THEN [rls |-> rls, next |-> FALSE, status |-> 429,
          retryAfter |-> CeilDiv(rls[key].resetTime - t, 1000)]
    ELSE [rls |-> [rls EXCEPT ![key].count = @ + 1],
          next |-> TRUE, status |-> 0, retryAfter |-> 0]

\* off by one: count > maxAttempts
rateLimit_offByOne(rls, key, t) ==
    IF key \notin DOMAIN rls \/ t > rls[key].resetTime
    THEN [rls |-> [k \in DOMAIN rls \cup {key} |->
                      IF k = key THEN [count |-> 1, resetTime |-> t + windowMs]
                                 ELSE rls[k]],
          next |-> TRUE, status |-> 0, retryAfter |-> 0]
    ELSE IF rls[key].count > maxAttempts
    THEN [rls |-> rls, next |-> FALSE, status |-> 429,
          retryAfter |-> CeilDiv(rls[key].resetTime - t, 1000)]
    ELSE [rls |-> [rls EXCEPT ![key].count = @ + 1],
          next |-> TRUE, status |-> 0, retryAfter |-> 0]

\* the 429 branch answers and then falls through to next()
rateLimit_noReturn(rls, key, t) ==
    IF key \notin DOMAIN rls \/ t > rls[key].resetTime
    THEN [rls |-> [k \in DOMAIN rls \cup {key} |->
                      IF k = key THEN [count |-> 1, resetTime |-> t + windowMs]
                                 ELSE rls[k]],
          next |-> TRUE, status |-> 0, retryAfter |-> 0]
    ELSE IF rls[key].count >= maxAttempts
    THEN [rls |-> [rls EXCEPT ![key].count = @ + 1],
          next |-> TRUE, status |-> 429,
          retryAfter |-> CeilDiv(rls[key].resetTime - t, 1000)]
    ELSE [rls |-> [rls EXCEPT ![key].count = @ + 1],
          next |-> TRUE, status |-> 0, retryAfter |-> 0]

rateLimit(rls, key, t) ==
    IF key \notin DOMAIN rls \/ t > rls[key].resetTime
    THEN [rls |-> [k \in DOMAIN rls \cup {key} |->
                      IF k = key THEN [count |-> 1, resetTime |-> t + windowMs]
                                 ELSE rls[k]],
          next |-> TRUE, status |-> 0, retryAfter |-> 0]
    ELSE IF rls[key].count >= maxAttempts
    THEN [rls |-> rls, next |-> FALSE, status |-> 429,
          retryAfter |-> CeilDiv(rls[key].resetTime - t, 1000)]
    ELSE [rls |-> [rls EXCEPT ![key].count = @ + 1],
          next |-> TRUE, status |-> 0, retryAfter |-> 0]

-----------------------------------------------------------------------------
(* Rows, locals and responses *)

undefined == [id |-> "", points |-> 0, flagHash |-> <<>>, flagSalt |-> "",
              published |-> FALSE, hints |-> <<>>, creatorId |-> "",
              createdAt |-> 0]

NoHint == [text |-> "", cost |-> 0]

\* keys: the keys of the JSON body sent
NoRes == [status |-> 0, message |-> "", correct |-> FALSE, retryAfter |-> 0,
          hint |-> "", cost |-> 0, keys |-> {}]

Res(status, message) ==
    [NoRes EXCEPT !.status = status, !.message = message, !.keys = {"message"}]

NoReply == [kind |-> "none", caller |-> "", status |-> 0, items |-> << >>,
            rank |-> 0, limit |-> 0, id |-> ""]

IdleReq == [kind |-> "none", pc |-> "idle", userId |-> "", challengeId |-> "",
            flag |-> "", param |-> << >>, hintIndex |-> 0,
            challenge |-> undefined,
            hint |-> NoHint, isCorrect |-> FALSE, verified |-> FALSE,
            res |-> NoRes]

-----------------------------------------------------------------------------
(* DatabaseStorage *)

\* a read-then-write that forgets the stored score: the absolute set
updateUserScore_absolute(us, userId, points) ==
    [id \in DOMAIN us |->
        IF id = userId THEN [us[id] EXCEPT !.score = points] ELSE us[id]]

\* the UPDATE has lost its WHERE clause
updateUserScore_everyRow(us, userId, points) ==
    [id \in DOMAIN us |-> [us[id] EXCEPT !.score = @ + points]]

\* the sum is clamped at zero
updateUserScore_floor(us, userId, points) ==
    [id \in DOMAIN us |->
        IF id = userId
        THEN [us[id] EXCEPT !.score = IF @ + points < 0 THEN 0 ELSE @ + points]
        ELSE us[id]]

updateUserScore(us, userId, points) ==
    [id \in DOMAIN us |->
        IF id = userId THEN [us[id] EXCEPT !.score = @ + points] ELSE us[id]]

getChallenge(ch, id) == IF id \in DOMAIN ch THEN ch[id] ELSE undefined

updateChallenge(ch, id, challengeUpdate) ==
    [c \in DOMAIN ch |->
        IF c = id
        THEN [f \in DOMAIN ch[c] |->
                 IF f \in DOMAIN challengeUpdate THEN challengeUpdate[f]
                                                 ELSE ch[c][f]]
        ELSE ch[c]]

\* a row of submissions, solves or hint_usage references the challenge
Referenced(sb, sv, hu, id) ==
    \/ \E i \in DOMAIN sb : sb[i].challengeId = id
    \/ \E i \in DOMAIN sv : sv[i].challengeId = id
    \/ \E i \in DOMAIN hu : hu[i].challengeId = id

\* DELETE FROM challenges WHERE id = ...; the foreign keys of submissions,
\* solves and hint_usage have no ON DELETE action, so the statement fails
\* and deletes nothing while a row references the challenge
deleteChallenge(ch, sb, sv, hu, id) ==
    IF Referenced(sb, sv, hu, id) THEN ch
    ELSE [c \in DOMAIN ch \ {id} |-> ch[c]]

\* an INSERT with challenge_id = id violates the foreign key
NoSuchChallenge(ch, id) == id \notin DOMAIN ch

\* the verdict is not stored: every row says isCorrect = false
createSubmission_verdictLost(sb, submission) ==
    Append(sb, [submission EXCEPT !.isCorrect = FALSE])

createSubmission(sb, submission) == Append(sb, submission)

createSolve(sv, userId, challengeId) ==
    Append(sv, [userId |-> userId, challengeId |-> challengeId])

\* the lookup finds nothing
hasSolved_never(sv, userId, challengeId) == FALSE

hasSolved(sv, userId, challengeId) ==
    \E i \in DOMAIN sv :
        sv[i].userId = userId /\ sv[i].challengeId = challengeId

\* the row does not record what was deducted
useHint_noCost(hu, userId, challengeId, hintIndex, pointsDeducted) ==
    Append(hu, [userId |-> userId, challengeId |-> challengeId,
                hintIndex |-> hintIndex, pointsDeducted |-> 0])

useHint(hu, userId, challengeId, hintIndex, pointsDeducted) ==
    Append(hu, [userId |-> userId, challengeId |-> challengeId,
                hintIndex |-> hintIndex, pointsDeducted |-> pointsDeducted])

\* the SELECT finds no row
getUserHintUsage_none(hu, userId, challengeId) == << >>

getUserHintUsage(hu, userId, challengeId) ==
    LET Mine(row) == row.userId = userId /\ row.challengeId = challengeId
    IN SelectSeq(hu, Mine)

\* the orders in which the rows S may come back under an ORDER BY whose
\* keys put a before b for the pairs <<a, b>> of before: rows that tie on
\* the keys come back in any order
Orderings(S, before) ==
    {p \in [1 .. Cardinality(S) -> S] :
        /\ \A i, j \in DOMAIN p : i # j => p[i] # p[j]
        /\ \A i, j \in DOMAIN p : i < j => <<p[j], p[i]>> \notin before}

Min(a, b) == IF a < b THEN a ELSE b

\* count(solves.id) of the left join, grouped by user
SolveCountOf(sv, userId) ==
    Cardinality({i \in DOMAIN sv : sv[i].userId = userId})

\* count(solves.id) of the left join, grouped by challenge
SolveCountFor(sv, challengeId) ==
    Cardinality({i \in DOMAIN sv : sv[i].challengeId = challengeId})

WithField(row, name, value) ==
    [f \in DOMAIN row \cup {name} |-> IF f = name THEN value ELSE row[f]]

\* ranks start at 0: index instead of index + 1
getLeaderboard_zeroBased(us, sv, limit) ==
    LET rows == {u \in DOMAIN us : us[u].isAdmin = FALSE}
        before ==
            {ab \in rows \X rows :
                \/ us[ab[1]].score > us[ab[2]].score
                \/ us[ab[1]].score = us[ab[2]].score
                      /\ SolveCountOf(sv, ab[1]) > SolveCountOf(sv, ab[2])}
    IN {[i \in 1 .. Min(limit, Cardinality(rows)) |->
            WithField(WithField(WithField(us[p[i]], "id", p[i]),
                                "rank", i - 1),
                      "solveCount", SolveCountOf(sv, p[i]))] :
        p \in Orderings(rows, before)}

\* the results the query may return: ORDER BY score DESC, count DESC leaves
\* the order of rows that tie on both to the database
getLeaderboard(us, sv, limit) ==
    LET rows == {u \in DOMAIN us : us[u].isAdmin = FALSE}
        before ==
            {ab \in rows \X rows :
                \/ us[ab[1]].score > us[ab[2]].score
                \/ us[ab[1]].score = us[ab[2]].score
                      /\ SolveCountOf(sv, ab[1]) > SolveCountOf(sv, ab[2])}
    IN {[i \in 1 .. Min(limit, Cardinality(rows)) |->
            WithField(WithField(WithField(us[p[i]], "id", p[i]),
                                "rank", i),
                      "solveCount", SolveCountOf(sv, p[i]))] :
        p \in Orderings(rows, before)}

\* score >= instead of score >
getUserRank_atLeast(us, userId) ==
    IF userId \notin DOMAIN us THEN 0
    ELSE Cardinality({v \in DOMAIN us : us[v].score >= us[userId].score}) + 1

getUserRank(us, userId) ==
    IF userId \notin DOMAIN us THEN 0
    ELSE Cardinality({v \in DOMAIN us : us[v].score > us[userId].score}) + 1

\* ORDER BY created_at DESC
NewestFirst(ch, ids) ==
    LET before == {ab \in ids \X ids :
                      ch[ab[1]].createdAt > ch[ab[2]].createdAt}
    IN Orderings(ids, before)

\* filters.published is undefined when filters has no such field
getChallenges(ch, sv, filters) ==
    LET ids == {c \in DOMAIN ch :
                   "published" \in DOMAIN filters =>
                       ch[c].published = filters.published}
    IN {[i \in DOMAIN p |->
            WithField(ch[p[i]], "solveCount", SolveCountFor(sv, p[i]))] :
        p \in NewestFirst(ch, ids)}

getUserChallenges(ch, sv, userId) ==
    LET ids == {c \in DOMAIN ch : ch[c].creatorId = userId}
    IN {[i \in DOMAIN p |->
            WithField(ch[p[i]], "solveCount", SolveCountFor(sv, p[i]))] :
        p \in NewestFirst(ch, ids)}

\* the solve rows of the user, each with its challenge row joined in
getUserSolves(ch, sv, userId) ==
    LET Mine(row) == row.userId = userId
        mine == SelectSeq(sv, Mine)
        newestFirst == [i \in DOMAIN mine |-> mine[Len(mine) + 1 - i]]
    IN [i \in DOMAIN mine |->
           WithField(newestFirst[i], "challenge",
                     getChallenge(ch, newestFirst[i].challengeId))]

\* const { flagHash, flagSalt, ...rest } = challenge
Sanitize(challenge) ==
    [f \in DOMAIN challenge \ {"flagHash", "flagSalt"} |-> challenge[f]]

\* the number NaN: an integer that no parse yields and no array index equals
NaN == -999

Digits == {"0", "1", "2", "3", "4", "5", "6", "7", "8", "9"}

DigitValue(ch) ==
    CASE ch = "0" -> 0 [] ch = "1" -> 1 [] ch = "2" -> 2 [] ch = "3" -> 3
      [] ch = "4" -> 4 [] ch = "5" -> 5 [] ch = "6" -> 6 [] ch = "7" -> 7
      [] ch = "8" -> 8 [] ch = "9" -> 9

\* the value of the digits of str from position i on, up to the first
\* character that is no digit
RECURSIVE ParseDigits(_, _, _)
ParseDigits(str, i, acc) ==
    IF i > Len(str) \/ str[i] \notin Digits THEN acc
    ELSE ParseDigits(str, i + 1, acc * 10 + DigitValue(str[i]))

\* parseInt(string): an optional sign, then the longest run of decimal
\* digits; whatever follows is ignored, and no digit at all gives NaN
parseInt(str) ==
    LET signed == Len(str) > 0 /\ str[1] \in {"-", "+"}
        start == IF signed THEN 2 ELSE 1
    IN IF start > Len(str) \/ str[start] \notin Digits THEN NaN
       ELSE IF signed /\ str[1] = "-" THEN -ParseDigits(str, start, 0)
       ELSE ParseDigits(str, start, 0)

\* every index is taken as a hint: hints[hintIndex] is never undefined
HintAt_anyIndex(challenge, hintIndex) ==
    IF hintIndex + 1 \in DOMAIN challenge.hints
    THEN challenge.hints[hintIndex + 1]
    ELSE IF challenge.hints = << >> THEN NoHint
    ELSE challenge.hints[1]

\* challenge.hints[hintIndex] of a JavaScript array (0-based)
HintAt(challenge, hintIndex) ==
    IF hintIndex + 1 \in DOMAIN challenge.hints
    THEN challenge.hints[hintIndex + 1]
    ELSE NoHint

-----------------------------------------------------------------------------
(* Initial state: two registered players and an administrator, one
   challenge created by u2 *)

CreatedAt(u) == CASE u = "u1" -> 1 [] u = "u2" -> 2 [] OTHER -> 3

Init ==
    /\ now = 0
    /\ rateLimitStore = << >>
    /\ admitted = [k \in Users \X ChalIds |-> << >>]
    /\ users = [u \in AllUsers |->
                   [score |-> 0, isAdmin |-> u \notin Users,
                    createdAt |-> CreatedAt(u)]]
    /\ challenges = [c \in ChalIds |->
                        [id |-> c, points |-> 100,
                         flagHash |-> hashPassword("flag{yes}"),
                         flagSalt |-> "salt",
                         published |-> FALSE,
                         hints |-> << [text |-> "h0", cost |-> 10],
                                      [text |-> "h1", cost |-> 20] >>,
                         creatorId |-> "u2", createdAt |-> 1]]
    /\ submissions = << >>
    /\ solves = << >>
    /\ hintUsage = << >>
    /\ req = [r \in Reqs |-> IdleReq]
    /\ reply = NoReply

-----------------------------------------------------------------------------
(* POST /api/challenges/:id/submit *)

\* rateLimit, then the handler up to its first await
SubmitStart(r, u, c, f) ==
    /\ req[r].pc = "idle"
    /\ \A q \in Reqs : q < r => req[q].pc # "idle"
    /\ LET rl == rateLimit(rateLimitStore, RateKey(u, c), now)
           res == IF rl.status = 429
                  THEN [Res(429, "Too many attempts. Please wait before trying again.")
                           EXCEPT !.retryAfter = rl.retryAfter,
                                  !.keys = {"message", "retryAfter"}]
                  ELSE IF f = "" THEN Res(400, "Flag is required")
                  ELSE NoRes
       IN /\ rateLimitStore' = rl.rls
          /\ admitted' = IF rl.next
                         THEN [admitted EXCEPT ![RateKey(u, c)] = Append(@, now)]
                         ELSE admitted
          /\ req' = [req EXCEPT ![r] =
                        [IdleReq EXCEPT !.kind = "submit", !.userId = u,
                                        !.challengeId = c, !.flag = f,
                                        !.res = res,
                                        !.pc = IF rl.next /\ f # ""
                                               THEN "getChallenge"
                                               ELSE "done"]]
    /\ UNCHANGED <<reply, now, store>>

\* the publication check is missing
SubmitGetChallenge_unchecked(r) ==
    /\ req[r].pc = "getChallenge"
    /\ LET challenge == getChallenge(challenges, req[r].challengeId)
       IN req' = [req EXCEPT ![r] =
                     IF challenge = undefined
                     THEN [@ EXCEPT !.pc = "done",
                                    !.res = Res(404, "Challenge not found")]
                     ELSE [@ EXCEPT !.pc = "hasSolved", !.challenge = challenge]]
    /\ UNCHANGED <<reply, now, rateLimitStore, admitted, store>>

SubmitGetChallenge(r) ==
    /\ req[r].pc = "getChallenge"
    /\ LET challenge == getChallenge(challenges, req[r].challengeId)
       IN req' = [req EXCEPT ![r] =
                     IF challenge = undefined
                     THEN [@ EXCEPT !.pc = "done",
                                    !.res = Res(404, "Challenge not found")]
                     ELSE IF ~challenge.published
                     THEN [@ EXCEPT !.pc = "done", !.challenge = challenge,
                                    !.res = Res(400, "Challenge is not published")]
                     ELSE [@ EXCEPT !.pc = "hasSolved", !.challenge = challenge]]
    /\ UNCHANGED <<reply, now, rateLimitStore, admitted, store>>

\* an error of the verifier is taken for the verdict "correct"
SubmitHasSolved_errorAsCorrect(r) ==
    /\ req[r].pc = "hasSolved"
    /\ LET alreadySolved == hasSolved(solves, req[r].userId, req[r].challengeId)
       IN req' = [req EXCEPT ![r] =
                     IF alreadySolved
                     THEN [@ EXCEPT !.pc = "done",
                                    !.res = Res(400, "You have already solved this challenge")]
                     ELSE [@ EXCEPT !.pc = "createSubmission",
                                    !.verified = TRUE,
                                    !.isCorrect =
                                        \/ comparePasswordsThrows(req[r].flag,
                                               req[r].challenge.flagHash)
                                        \/ comparePasswords(req[r].flag,
                                               req[r].challenge.flagHash)]]
    /\ UNCHANGED <<reply, now, rateLimitStore, admitted, store>>

\* hasSolved, then comparePasswords on the handler's own locals; an error
\* thrown by comparePasswords is caught by the handler's catch block
SubmitHasSolved(r) ==
    /\ req[r].pc = "hasSolved"
    /\ LET alreadySolved == hasSolved(solves, req[r].userId, req[r].challengeId)
       IN req' = [req EXCEPT ![r] =
                     IF alreadySolved
                     THEN [@ EXCEPT !.pc = "done",
                                    !.res = Res(400, "You have already solved this challenge")]
                     ELSE IF comparePasswordsThrows(req[r].flag,
                                                    req[r].challenge.flagHash)
                     THEN [@ EXCEPT !.pc = "done",
                                    !.res = Res(500, "Failed to submit flag")]
                     ELSE [@ EXCEPT !.pc = "createSubmission",
                                    !.verified = TRUE,
                                    !.isCorrect = comparePasswords(req[r].flag,
                                                      req[r].challenge.flagHash)]]
    /\ UNCHANGED <<reply, now, rateLimitStore, admitted, store>>

\* the verdict is ignored: every logged submission goes on to createSolve
SubmitCreateSubmission_anyVerdict(r) ==
    /\ req[r].pc = "createSubmission"
    /\ submissions' = createSubmission(submissions,
                          [userId |-> req[r].userId,
                           challengeId |-> req[r].challengeId,
                           flagAttempt |-> req[r].flag,
                           isCorrect |-> req[r].isCorrect])
    /\ req' = [req EXCEPT ![r].pc = "createSolve"]
    /\ UNCHANGED <<reply, now, rateLimitStore, admitted, users, challenges, solves,
                   hintUsage>>

SubmitCreateSubmission(r) ==
    /\ req[r].pc = "createSubmission"
    /\ IF NoSuchChallenge(challenges, req[r].challengeId)
       THEN /\ submissions' = submissions
            /\ req' = [req EXCEPT ![r].pc = "done",
                                  ![r].res = Res(500, "Failed to submit flag")]
       ELSE /\ submissions' = createSubmission(submissions,
                                  [userId |-> req[r].userId,
                                   challengeId |-> req[r].challengeId,
                                   flagAttempt |-> req[r].flag,
                                   isCorrect |-> req[r].isCorrect])
            /\ req' = [req EXCEPT ![r] =
                          IF req[r].isCorrect
                          THEN [@ EXCEPT !.pc = "createSolve"]
                          ELSE [@ EXCEPT !.pc = "done",
                                         !.res = [Res(200, "Incorrect flag. Try again!")
                                                     EXCEPT !.keys = {"correct", "message"}]]]
    /\ UNCHANGED <<reply, now, rateLimitStore, admitted, users, challenges, solves,
                   hintUsage>>

SubmitCreateSolve(r) ==
    /\ req[r].pc = "createSolve"
    /\ IF NoSuchChallenge(challenges, req[r].challengeId)
       THEN /\ solves' = solves
            /\ req' = [req EXCEPT ![r].pc = "done",
                                  ![r].res = Res(500, "Failed to submit flag")]
       ELSE /\ solves' = createSolve(solves, req[r].userId, req[r].challengeId)
            /\ req' = [req EXCEPT ![r].pc = "updateUserScore"]
    /\ UNCHANGED <<reply, now, rateLimitStore, admitted, users, challenges,
                   submissions, hintUsage>>

SubmitUpdateUserScore(r) ==
    /\ req[r].pc = "updateUserScore"
    /\ users' = updateUserScore(users, req[r].userId, req[r].challenge.points)
    /\ req' = [req EXCEPT ![r].pc = "done",
                          ![r].res = [Res(200, "Congratulations! Flag accepted.")
                                         EXCEPT !.correct = TRUE,
                                                !.keys = {"correct", "message"}]]
    /\ UNCHANGED <<reply, now, rateLimitStore, admitted, challenges, submissions,
                   solves, hintUsage>>

-----------------------------------------------------------------------------
(* POST /api/challenges/:id/hints/:index *)

HintStart(r, u, c, i) ==
    /\ req[r].pc = "idle"
    /\ \A q \in Reqs : q < r => req[q].pc # "idle"
    /\ req' = [req EXCEPT ![r] =
                  [IdleReq EXCEPT !.kind = "hint", !.userId = u,
                                  !.challengeId = c, !.hintIndex = i,
                                  !.pc = "hintGetChallenge"]]
    /\ UNCHANGED <<reply, now, rateLimitStore, admitted, store>>

\* the same request as it comes from the URL: hintIndex = parseInt(index)
HintRequest(r, u, c, index) ==
    /\ req[r].pc = "idle"
    /\ \A q \in Reqs : q < r => req[q].pc # "idle"
    /\ req' = [req EXCEPT ![r] =
                  [IdleReq EXCEPT !.kind = "hint", !.userId = u,
                                  !.challengeId = c, !.param = index,
                                  !.hintIndex = parseInt(index),
                                  !.pc = "hintGetChallenge"]]
    /\ UNCHANGED <<reply, now, rateLimitStore, admitted, store>>

HintGetChallenge(r) ==
    /\ req[r].pc = "hintGetChallenge"
    /\ LET challenge == getChallenge(challenges, req[r].challengeId)
       IN req' = [req EXCEPT ![r] =
                     IF challenge = undefined
                        \/ HintAt(challenge, req[r].hintIndex) = NoHint
                     THEN [@ EXCEPT !.pc = "done",
                                    !.res = Res(404, "Hint not found")]
                     ELSE [@ EXCEPT !.pc = "getUserHintUsage",
                                    !.challenge = challenge]]
    /\ UNCHANGED <<reply, now, rateLimitStore, admitted, store>>

HintGetUserHintUsage(r) ==
    /\ req[r].pc = "getUserHintUsage"
    /\ LET existingUsage == getUserHintUsage(hintUsage, req[r].userId,
                                             req[r].challengeId)
       IN req' = [req EXCEPT ![r] =
                     IF \E k \in DOMAIN existingUsage :
                            existingUsage[k].hintIndex = req[r].hintIndex
                     THEN [@ EXCEPT !.pc = "done",
                                    !.res = Res(400, "Hint already used")]
                     ELSE [@ EXCEPT !.pc = "hintUpdateUserScore",
                                    !.hint = HintAt(req[r].challenge,
                                                    req[r].hintIndex)]]
    /\ UNCHANGED <<reply, now, rateLimitStore, admitted, store>>

HintUpdateUserScore(r) ==
    /\ req[r].pc = "hintUpdateUserScore"
    /\ users' = updateUserScore(users, req[r].userId, -req[r].hint.cost)
    /\ req' = [req EXCEPT ![r].pc = "useHint"]
    /\ UNCHANGED <<reply, now, rateLimitStore, admitted, challenges, submissions,
                   solves, hintUsage>>

HintUseHint(r) ==
    /\ req[r].pc = "useHint"
    /\ IF NoSuchChallenge(challenges, req[r].challengeId)
       THEN /\ hintUsage' = hintUsage
            /\ req' = [req EXCEPT ![r].pc = "done",
                                  ![r].res = Res(500, "Failed to use hint")]
       ELSE /\ hintUsage' = useHint(hintUsage, req[r].userId,
                                    req[r].challengeId, req[r].hintIndex,
                                    req[r].hint.cost)
            /\ req' = [req EXCEPT ![r].pc = "done",
                                  ![r].res = [Res(200, "") EXCEPT
                                                 !.hint = req[r].hint.text,
                                                 !.cost = req[r].hint.cost,
                                                 !.keys = {"hint", "cost"}]]
    /\ UNCHANGED <<reply, now, rateLimitStore, admitted, users, challenges,
                   submissions, solves>>

-----------------------------------------------------------------------------
(* PUT /api/challenges/:id, with a body that sets the publication flag *)

UpdateChallenge(u, c, body) ==
    /\ getChallenge(challenges, c) # undefined
    /\ getChallenge(challenges, c).creatorId = u
    /\ challenges' = updateChallenge(challenges, c, body)
    /\ challenges' # challenges
    /\ UNCHANGED <<reply, now, rateLimitStore, admitted, users, submissions, solves,
                   hintUsage, req>>

Bodies == {[published |-> TRUE], [published |-> FALSE]}

\* bodies that edit the point value or the stored flag hash as well
EditBodies == Bodies \cup {[points |-> 50], [flagHash |-> Malformed]}

\* the id the database gives the next challenge created
NewChallengeId == "c2"

\* INSERT INTO challenges of the parsed body, with the hashed flag
createChallenge(ch, id, insertChallenge) ==
    [c \in DOMAIN ch \cup {id} |->
        IF c = id
        THEN [id |-> id, points |-> insertChallenge.points,
              flagHash |-> hashPassword(insertChallenge.flag),
              flagSalt |-> "salt",
              published |-> insertChallenge.published,
              hints |-> << >>,
              creatorId |-> insertChallenge.creatorId,
              createdAt |-> 2]
        ELSE ch[c]]

\* POST /api/challenges
CreateChallenge(u, published) ==
    /\ NewChallengeId \notin DOMAIN challenges
    /\ challenges' = createChallenge(challenges, NewChallengeId,
                          [creatorId |-> u, points |-> 100,
                           flag |-> "flag{yes}", published |-> published])
    /\ UNCHANGED <<reply, now, rateLimitStore, admitted, users, submissions,
                   solves, hintUsage, req>>

\* DELETE /api/challenges/:id by the creator of the challenge; when the
\* DELETE statement fails the handler answers 500 and nothing has changed
DeleteChallenge(u, c) ==
    /\ reply = NoReply
    /\ getChallenge(challenges, c) # undefined
    /\ getChallenge(challenges, c).creatorId = u
    /\ challenges' = deleteChallenge(challenges, submissions, solves,
                                     hintUsage, c)
    /\ reply' = [NoReply EXCEPT !.kind = "delete", !.caller = u, !.id = c,
                                !.status = IF c \in DOMAIN challenges'
                                           THEN 500 ELSE 204]
    /\ UNCHANGED <<now, rateLimitStore, admitted, users, submissions, solves,
                   hintUsage, req>>

-----------------------------------------------------------------------------
(* The clock, and a finished request leaving *)

Tick(t) ==
    /\ t > now
    /\ now' = t
    /\ admitted' = [k \in DOMAIN admitted |->
                       LET Recent(a) == a >= t - windowMs
                       IN SelectSeq(admitted[k], Recent)]
    /\ UNCHANGED <<reply, rateLimitStore, store, req>>

Close(r) ==
    /\ req[r].pc = "done"
    /\ req' = [req EXCEPT ![r] = IdleReq]
    /\ UNCHANGED <<reply, now, rateLimitStore, admitted, store>>

-----------------------------------------------------------------------------
(* Concurrent requests: up to MaxReq requests, each run once, interleaved
   at every await *)

SubmitSteps(r) ==
    \/ SubmitGetChallenge(r)
    \/ SubmitHasSolved(r)
    \/ SubmitCreateSubmission(r)
    \/ SubmitCreateSolve(r)
    \/ SubmitUpdateUserScore(r)

HintSteps(r) ==
    \/ HintGetChallenge(r)
    \/ HintGetUserHintUsage(r)
    \/ HintUpdateUserScore(r)
    \/ HintUseHint(r)

Admin == \E u \in Users, c \in ChalIds, body \in Bodies : UpdateChallenge(u, c, body)

Next ==
    \/ \E r \in Reqs, u \in Users, c \in ChalIds, f \in Flags : SubmitStart(r, u, c, f)
    \/ \E r \in Reqs, u \in Users, c \in ChalIds, i \in HintIndexes : HintStart(r, u, c, i)
    \/ \E r \in Reqs : SubmitSteps(r)
    \/ \E r \in Reqs : HintSteps(r)
    \/ Admin

Spec == Init /\ [][Next]_vars

(* One player's submissions, one after the other, as the clock advances *)

NextSeq ==
    \/ \E f \in Flags : SubmitStart(1, "u1", "c1", f)
    \/ SubmitSteps(1)
    \/ Close(1)
    \/ \E t \in Instants : Tick(t)
    \/ Admin

SpecSeq == Init /\ [][NextSeq]_vars

(* Hint requests, one after the other, with the index as the URL gives it *)

NextHint ==
    \/ \E u \in Users, c \in ChallengeIds, index \in IndexParams :
          HintRequest(1, u, c, index)
    \/ HintSteps(1)
    \/ Close(1)

SpecHint == Init /\ [][NextHint]_vars

(***************************************************************************)
(* The read endpoints.  None of them writes a table, so each handler is    *)
(* one step from the tables to the JSON it sends, kept in reply until it   *)
(* has gone out.                                                           *)
(***************************************************************************)

\* the Solve tables a read may find: at most MaxSolveRows rows for each
\* principal, oldest first
SolveTables ==
    LET rows == {createSolve(<< >>, u, c)[1] : u \in AllUsers, c \in ChalIds}
        tables == UNION {[1 .. k -> rows] :
                            k \in 0 .. MaxSolveRows * Cardinality(AllUsers)}
    IN {sv \in tables :
           /\ \A u \in AllUsers : SolveCountOf(sv, u) <= MaxSolveRows
           /\ \A i, j \in DOMAIN sv :
                 i < j => CreatedAt(sv[i].userId) <= CreatedAt(sv[j].userId)}

InitRead ==
    /\ now = 0
    /\ rateLimitStore = << >>
    /\ admitted = [k \in Users \X ChalIds |-> << >>]
    /\ \E score \in [AllUsers -> Scores], admin \in [AllUsers -> BOOLEAN] :
          users = [u \in AllUsers |->
                      [score |-> score[u], isAdmin |-> admin[u],
                       createdAt |-> CreatedAt(u)]]
    /\ \E published \in BOOLEAN :
          challenges = [c \in ChalIds |->
                           [id |-> c, points |-> 100,
                            flagHash |-> hashPassword("flag{yes}"),
                            flagSalt |-> "salt",
                            published |-> published,
                            hints |-> << [text |-> "h0", cost |-> 10],
                                         [text |-> "h1", cost |-> 20] >>,
                            creatorId |-> "u2", createdAt |-> 1]]
    /\ submissions = << >>
    /\ solves \in SolveTables
    /\ hintUsage = << >>
    /\ req = [r \in Reqs |-> IdleReq]
    /\ reply = NoReply

Json(kind, caller, id, items) ==
    [kind |-> kind, caller |-> caller, status |-> 200, items |-> items,
     rank |-> 0, limit |-> 0, id |-> id]

NotFound(kind, caller, id) ==
    [kind |-> kind, caller |-> caller, status |-> 404, items |-> << >>,
     rank |-> 0, limit |-> 0, id |-> id]

\* GET /api/challenges?published=...
GetChallenges(caller, published) ==
    LET query == IF published = "" THEN << >>
                 ELSE [published |-> published = "true"]
        filters == IF caller = "anon" THEN [published |-> TRUE] ELSE query
    IN /\ reply = NoReply
       /\ \E found \in getChallenges(challenges, solves, filters) :
             reply' = Json("challenges", caller, "",
                           [i \in DOMAIN found |-> Sanitize(found[i])])
       /\ UNCHANGED <<now, rateLimitStore, admitted, store, req>>

\* GET /api/challenges/:id
GetChallengeById(caller, id) ==
    LET challenge == getChallenge(challenges, id)
        solved == caller # "anon" /\ hasSolved(solves, caller, challenge.id)
    IN /\ reply = NoReply
       /\ reply' = IF challenge = undefined
                   THEN NotFound("challenge", caller, id)
                   ELSE Json("challenge", caller, id,
                             << WithField(Sanitize(challenge),
                                          "hasSolved", solved) >>)
       /\ UNCHANGED <<now, rateLimitStore, admitted, store, req>>

\* GET /api/users/:id
GetUser(caller, id) ==
    LET rank == getUserRank(users, id)
        count == Len(getUserSolves(challenges, solves, id))
    IN /\ reply = NoReply
       /\ reply' = IF id \notin DOMAIN users
                   THEN NotFound("user", caller, id)
                   ELSE [Json("user", caller, id,
                              << WithField(WithField(WithField(users[id],
                                    "id", id), "rank", rank),
                                    "solveCount", count) >>)
                         EXCEPT !.rank = rank]
       /\ UNCHANGED <<now, rateLimitStore, admitted, store, req>>

\* GET /api/users/:id/challenges
GetUserChallenges(caller, id) ==
    /\ reply = NoReply
    /\ \E found \in getUserChallenges(challenges, solves, id) :
          reply' = Json("userChallenges", caller, id, found)
    /\ UNCHANGED <<now, rateLimitStore, admitted, store, req>>

\* GET /api/users/:id/solves
GetUserSolves(caller, id) ==
    /\ reply = NoReply
    /\ reply' = Json("userSolves", caller, id,
                     getUserSolves(challenges, solves, id))
    /\ UNCHANGED <<now, rateLimitStore, admitted, store, req>>

\* GET /api/leaderboard?limit=...
GetLeaderboard(caller, query) ==
    LET limit == IF query = 0 THEN DefaultLimit ELSE query
    IN /\ reply = NoReply
       /\ \E leaderboard \in getLeaderboard(users, solves, limit) :
             reply' = [Json("leaderboard", caller, "", leaderboard)
                       EXCEPT !.limit = limit]
       /\ UNCHANGED <<now, rateLimitStore, admitted, store, req>>

\* res.json(...) has written the answer to the socket
ReplySent ==
    /\ reply # NoReply
    /\ reply' = NoReply
    /\ UNCHANGED <<now, rateLimitStore, admitted, store, req>>

NextRead ==
    \/ \E caller \in Callers, q \in PublishedQueries : GetChallenges(caller, q)
    \/ \E caller \in Callers, id \in ChallengeIds : GetChallengeById(caller, id)
    \/ \E caller \in Callers, id \in UserIds : GetUser(caller, id)
    \/ \E caller \in Callers, id \in UserIds : GetUserChallenges(caller, id)
    \/ \E caller \in Callers, id \in UserIds : GetUserSolves(caller, id)
    \/ \E caller \in Callers, q \in LimitQueries : GetLeaderboard(caller, q)
    \/ ReplySent

SpecRead == InitRead /\ [][NextRead]_vars

(***************************************************************************)
(* A store operation that fails.  The await rejects, the statement has     *)
(* written nothing, and the catch block of the handler answers 500; what   *)
(* the earlier statements of the request wrote stays, since every          *)
(* statement commits on its own.                                           *)
(***************************************************************************)

Fail(r) ==
    /\ req[r].pc \notin {"idle", "done"}
    /\ req' = [req EXCEPT ![r].pc = "done",
                          ![r].res = Res(500, IF req[r].kind = "submit"
                                              THEN "Failed to submit flag"
                                              ELSE "Failed to use hint")]
    /\ UNCHANGED <<reply, now, rateLimitStore, admitted, store>>

NextFail ==
    \/ Next
    \/ \E r \in Reqs : Fail(r)

SpecFail == Init /\ [][NextFail]_vars

(* Requests of one player, one after the other, up to MaxReq of them, while
   the creator edits, publishes, unpublishes and deletes the challenge
   between any two of their steps *)

NextAdmin ==
    \/ \E r \in Reqs, c \in ChalIds, f \in Flags :
          /\ \A q \in Reqs : q < r => req[q].pc = "done"
          /\ SubmitStart(r, "u1", c, f)
    \/ \E r \in Reqs, c \in ChalIds, i \in HintIndexes :
          /\ \A q \in Reqs : q < r => req[q].pc = "done"
          /\ HintStart(r, "u1", c, i)
    \/ \E r \in Reqs : SubmitSteps(r)
    \/ \E r \in Reqs : HintSteps(r)
    \/ \E u \in Users, c \in ChalIds, body \in EditBodies :
          UpdateChallenge(u, c, body)
    \/ \E u \in Users, c \in ChalIds : DeleteChallenge(u, c)
    \/ ReplySent

SpecAdmin == Init /\ [][NextAdmin]_vars

(* The same, while challenges are created and the leaderboard and the
   player's rank are read *)

NextFrame ==
    \/ NextAdmin
    \/ \E u \in Users, published \in BOOLEAN : CreateChallenge(u, published)
    \/ GetLeaderboard("anon", 0)
    \/ GetUser("anon", "u1")

SpecFrame == Init /\ [][NextFrame]_vars

-----------------------------------------------------------------------------
(* What the requests have done so far *)

SolveRows(u, c) ==
    {i \in DOMAIN solves : solves[i].userId = u /\ solves[i].challengeId = c}

HintRows(u, c, i) ==
    {k \in DOMAIN hintUsage : /\ hintUsage[k].userId = u
                              /\ hintUsage[k].challengeId = c
                              /\ hintUsage[k].hintIndex = i}

\* the request has been answered {correct: true}: its award has been applied
Awarded(r) ==
    req[r].kind = "submit" /\ req[r].pc = "done" /\ req[r].res.correct

\* the request has applied its hint deduction
Deducted(r) ==
    /\ req[r].kind = "hint"
    /\ \/ req[r].pc = "useHint"
       \/ req[r].pc = "done" /\ req[r].res.status = 200

\* the delta the request has passed to updateUserScore, 0 if none yet
Delta(r) ==
    IF Awarded(r) THEN req[r].challenge.points
    ELSE IF Deducted(r) THEN -req[r].hint.cost
    ELSE 0

RECURSIVE SumDelta(_)
SumDelta(S) ==
    IF S = {} THEN 0
    ELSE LET r == CHOOSE x \in S : TRUE IN Delta(r) + SumDelta(S \ {r})

RECURSIVE SumPoints(_)
SumPoints(C) ==
    IF C = {} THEN 0
    ELSE LET c == CHOOSE x \in C : TRUE
         IN challenges[c].points + SumPoints(C \ {c})

RequestsOf(u) == {r \in Reqs : req[r].userId = u}

\* the submissions of u for c that passed the "no existing Solve" check with
\* the correct flag and have been answered
PassedCorrect(u, c) ==
    {r \in Reqs : /\ req[r].kind = "submit"
                  /\ req[r].userId = u /\ req[r].challengeId = c
                  /\ req[r].verified /\ req[r].isCorrect
                  /\ req[r].pc = "done"}

-----------------------------------------------------------------------------
(* Claims about concurrent requests, checked under Spec *)

\* C1: in every reachable state there is at most one Solve row for each
\* (principal, challenge), also when correct submissions for the same pair
\* are interleaved at their store operations.
C1_AtMostOneSolve ==
    \A u \in Users, c \in ChalIds : Cardinality(SolveRows(u, c)) <= 1

\* C2: whatever the interleaving of concurrent correct submissions for one
\* (principal, challenge), the principal's score holds the challenge's point
\* value once: score = (points of the challenges awarded) + (hint deltas).
C2_ScoreAwardedOnce ==
    \A u \in Users :
        LET solvedOnce == {c \in ChalIds : \E r \in RequestsOf(u) :
                              Awarded(r) /\ req[r].challengeId = c}
            hintReqs == {r \in RequestsOf(u) : req[r].kind = "hint"}
        IN users[u].score = SumPoints(solvedOnce) + SumDelta(hintReqs)

\* C3: when two or more correct submissions for the same (principal,
\* challenge) all pass the "no existing Solve" check, exactly one is answered
\* correct:true and every other one is answered "already solved".
C3_OneSolvedOthersAlreadySolved ==
    \A u \in Users, c \in ChalIds :
        LET passed == PassedCorrect(u, c)
            winners == {r \in passed : req[r].res.correct}
        IN Cardinality(passed) >= 2 =>
              /\ Cardinality(winners) = 1
              /\ \A r \in passed \ winners :
                    /\ req[r].res.status = 400
                    /\ req[r].res.message = "You have already solved this challenge"

\* C4: there is at most one HintUsage row for each (principal, challenge,
\* hintIndex), and identical concurrent useHint calls deduct the cost once.
C4_HintUsedOnce ==
    \A u \in Users, c \in ChalIds, i \in HintIndexes :
        /\ Cardinality(HintRows(u, c, i)) <= 1
        /\ Cardinality({r \in RequestsOf(u) : /\ Deducted(r)
                                              /\ req[r].challengeId = c
                                              /\ req[r].hintIndex = i}) <= 1

\* C5: updateUserScore is an atomic relative adjustment: after any
\* interleaving of the updateUserScore calls made so far, each principal's
\* score is its initial score (0) plus the sum of the deltas of those calls.
C5_NoLostUpdate ==
    \A u \in Users : users[u].score = 0 + SumDelta(RequestsOf(u))

\* two requests of one principal have both applied a delta while both were
\* still in flight
C5_Witness ==
    /\ req[1].userId = "u1" /\ req[2].userId = "u1"
    /\ req[1].pc = "useHint" /\ req[2].pc = "useHint"
    /\ users["u1"].score = Delta(1) + Delta(2)
    /\ Delta(1) < 0 /\ Delta(2) < 0

-----------------------------------------------------------------------------
(* Claims about the throttle and about one player's successive submissions,
   checked under SpecSeq *)

\* the submissions of `key` admitted at or after time `from`
AdmittedSince(key, from) ==
    Cardinality({i \in DOMAIN admitted[key] : admitted[key][i] >= from})

\* A submission arrives (rateLimit runs).  If its window holds maxAttempts
\* admitted submissions and has not elapsed it is answered 429 with
\* 0 <= retryAfter <= 60; if its window has elapsed it is admitted.  A
\* submission at exactly resetTime counts as elapsed iff boundaryElapsed.
ThrottleStep(boundaryElapsed) ==
    \A r \in Reqs :
        (req[r].pc = "idle" /\ req'[r].kind = "submit") =>
            LET key == RateKey(req'[r].userId, req'[r].challengeId)
            IN key \in DOMAIN rateLimitStore =>
                LET resetTime == rateLimitStore[key].resetTime
                    elapsed == IF boundaryElapsed THEN now >= resetTime
                                                  ELSE now > resetTime
                IN /\ (~elapsed /\ AdmittedSince(key, resetTime - windowMs) >= maxAttempts)
                        => /\ req'[r].res.status = 429
                           /\ req'[r].res.retryAfter \in 0 .. (windowMs \div 1000)
                           /\ admitted' = admitted
                   /\ elapsed
                        => /\ req'[r].res.status # 429
                           /\ admitted'[key] = Append(admitted[key], now)

\* C6 as stated: the (N+1)-th submission inside a window is answered 429
\* with retryAfter in 0..60, and a submission at any t >= resetTime is
\* admitted.
C6_AdmittedFromResetTime == [][ThrottleStep(TRUE)]_vars

\* C6 as amended: the same, with the window ending after resetTime: a
\* submission at t > resetTime is admitted, one at t = resetTime is still
\* inside the window.
C6_AdmittedAfterResetTime == [][ThrottleStep(FALSE)]_vars

\* a submission was answered 429 in a window that was opened by the first
\* submission after an earlier window had elapsed
C6_Witness ==
    /\ req[1].res.status = 429
    /\ req[1].res.retryAfter = windowMs \div 1000
    /\ rateLimitStore[RateKey("u1", "c1")].resetTime > windowMs

\* C7 as stated: in every rolling interval of 60 seconds the throttle admits
\* at most 10 submissions of a (principal, challenge) pair.
C7_RollingWindow ==
    \A key \in DOMAIN admitted :
        AdmittedSince(key, now - windowMs) <= maxAttempts

\* C7 as amended: the throttle admits at most 10 submissions in each of its
\* fixed windows [resetTime - 60 s, resetTime], and at most 19 in a rolling
\* interval of 60 seconds.
C7_FixedWindow ==
    \A key \in DOMAIN admitted :
        /\ AdmittedSince(key, now - windowMs) <= 2 * maxAttempts - 1
        /\ key \in DOMAIN rateLimitStore =>
              AdmittedSince(key, rateLimitStore[key].resetTime - windowMs)
                  <= maxAttempts

\* 19 submissions admitted within 60 seconds
C7_Witness ==
    AdmittedSince(RateKey("u1", "c1"), now - windowMs) = 2 * maxAttempts - 1

\* C8: a submission answered 429 by the throttle ends there: the flag
\* verifier is not invoked, and the step that rejects it leaves every table
\* (submissions, solves, scores) unchanged.
C8_RejectedChangesNothing ==
    /\ [](\A r \in Reqs : req[r].res.status = 429 =>
             req[r].pc = "done" /\ ~req[r].verified)
    /\ [][\A r \in Reqs :
             (req[r].res.status # 429 /\ req'[r].res.status = 429) =>
                 UNCHANGED <<users, challenges, submissions, solves, hintUsage>>]_vars

C8_Witness ==
    /\ req[1].res.status = 429
    /\ req[1].flag = "flag{yes}"
    /\ challenges["c1"].published
    /\ SolveRows("u1", "c1") = {}

\* C9: a submission that reaches the challenge lookup (admitted by the
\* throttle, carrying a flag) for a challenge that exists and is not
\* published is answered "Challenge is not published" whatever the flag and
\* whether or not the principal holds a Solve, and changes no Submission
\* row, Solve row or score.
C9_NotPublished ==
    [][\A r \in Reqs :
          (/\ req[r].kind = "submit" /\ req[r].pc = "getChallenge"
           /\ req'[r] # req[r]
           /\ req[r].challengeId \in DOMAIN challenges
           /\ ~challenges[req[r].challengeId].published)
          => /\ req'[r].pc = "done"
             /\ req'[r].res.status = 400
             /\ req'[r].res.message = "Challenge is not published"
             /\ ~req'[r].verified
             /\ UNCHANGED <<submissions, solves, users>>]_vars

\* the correct flag, sent by a principal who holds a Solve, was rejected as
\* not published
C9_Witness ==
    /\ req[1].res.message = "Challenge is not published"
    /\ req[1].flag = "flag{yes}"
    /\ SolveRows("u1", "c1") # {}

\* C10: in a sequential history, once a Solve for (P, C) exists a submission
\* by P for published C that reaches the hasSolved check is answered
\* "already solved" without the flag verifier being invoked; no Solve is
\* appended and P's score stays at the value the solve gave it.
C10_Idempotent ==
    /\ [][\A r \in Reqs :
             (/\ req[r].kind = "submit" /\ req[r].pc = "hasSolved"
              /\ req'[r] # req[r]
              /\ SolveRows(req[r].userId, req[r].challengeId) # {})
             => /\ req'[r].pc = "done"
                /\ req'[r].res = Res(400, "You have already solved this challenge")
                /\ ~req'[r].verified
                /\ UNCHANGED <<submissions, solves, users>>]_vars
    /\ [][\A u \in Users, c \in ChalIds :
             SolveRows(u, c) # {} => solves' = solves]_vars
    /\ [](\A u \in Users, c \in ChalIds :
             SolveRows(u, c) # {} =>
                 users[u].score =
                     IF \E r \in Reqs : /\ req[r].pc = "updateUserScore"
                                        /\ req[r].userId = u
                     THEN 0 ELSE challenges[c].points)

\* the correct flag, resubmitted after the solve, was answered "already solved"
C10_Witness ==
    /\ req[1].res.message = "You have already solved this challenge"
    /\ req[1].flag = "flag{yes}"
    /\ users["u1"].score = 100

-----------------------------------------------------------------------------
(* Claims about one submission's outcome, checked under Spec *)

\* the submission carries a flag that is not the challenge's flag
IncorrectFlag(r) ==
    req[r].kind = "submit" /\ req[r].flag \notin {"", "flag{yes}"}

\* the submission carries the challenge's flag and found no Solve
CorrectUnsolved(r) ==
    /\ req[r].kind = "submit" /\ req[r].flag = "flag{yes}"
    /\ req[r].verified

\* C11: an admitted submission with an incorrect flag on a published,
\* unsolved challenge is answered {correct: false}; none of its steps
\* creates a Solve row or changes a score.
C11_IncorrectFlag ==
    /\ [][\A r \in Reqs :
             (IncorrectFlag(r) /\ req'[r] # req[r]) =>
                 (solves' = solves /\ users' = users)]_vars
    /\ [](\A r \in Reqs :
             (IncorrectFlag(r) /\ req[r].verified /\ req[r].pc = "done") =>
                 /\ req[r].res.status = 200
                 /\ "correct" \in req[r].res.keys
                 /\ ~req[r].res.correct)

C11_Witness ==
    /\ req[1].flag = "flag{no}" /\ req[1].verified /\ req[1].pc = "done"
    /\ req[1].res.status = 200
    /\ Len(submissions) = 1 /\ solves = << >>

\* C12 as stated: an admitted submission with the correct flag that found
\* no Solve is answered {correct: true, pointsAwarded: points(C)}, and by
\* then the Solve (P, C) exists and P's score holds the points.
C12_PointsAwardedInAnswer ==
    \A r \in Reqs :
        (CorrectUnsolved(r) /\ req[r].pc = "done") =>
            /\ req[r].res.correct
            /\ "pointsAwarded" \in req[r].res.keys
            /\ SolveRows(req[r].userId, req[r].challengeId) # {}

\* C12 as amended: such a submission is answered {correct: true, message}
\* (the body has no pointsAwarded); its createSolve step appends the Solve
\* (P, C); its updateUserScore step adds exactly points(C) to P's score and
\* leaves every other principal's row unchanged.
C12_SolveAndAward ==
    /\ [][\A r \in Reqs :
             (CorrectUnsolved(r) /\ req[r].pc = "createSolve" /\ req'[r] # req[r]) =>
                 solves' = Append(solves, [userId |-> req[r].userId,
                                           challengeId |-> req[r].challengeId])]_vars
    /\ [][\A r \in Reqs :
             (CorrectUnsolved(r) /\ req[r].pc = "updateUserScore" /\ req'[r] # req[r]) =>
                 /\ users'[req[r].userId].score =
                        users[req[r].userId].score
                            + challenges[req[r].challengeId].points
                 /\ \A v \in AllUsers \ {req[r].userId} : users'[v] = users[v]
                 /\ req'[r].res.correct
                 /\ req'[r].res.keys = {"correct", "message"}]_vars
    /\ [](\A r \in Reqs :
             (CorrectUnsolved(r) /\ req[r].pc = "done") =>
                 /\ req[r].res.status = 200 /\ req[r].res.correct
                 /\ SolveRows(req[r].userId, req[r].challengeId) # {})

C12_Witness ==
    /\ CorrectUnsolved(1) /\ req[1].pc = "done" /\ req[1].userId = "u1"
    /\ users["u1"].score = 100 /\ users["u2"].score = 0
    /\ Cardinality(SolveRows("u1", "c1")) = 1

(***************************************************************************)
(* The leaderboard and the rank of a user (SpecRead).                      *)
(***************************************************************************)

NonAdmins == {u \in AllUsers : ~users[u].isAdmin}

\* the users table with every admin's score replaced by score
WithAdminScore(score) ==
    [u \in AllUsers |->
        IF users[u].isAdmin THEN [users[u] EXCEPT !.score = score]
        ELSE users[u]]

\* C13: the entries of a leaderboard answer come in the total order score
\* descending, then solve count descending, then account-creation time
\* ascending, so of two principals equal in score and in solve count the
\* one registered earlier comes first.
C13_TotalOrder ==
    reply.kind = "leaderboard" =>
        \A i, j \in DOMAIN reply.items :
            i < j =>
                LET a == reply.items[i]
                    b == reply.items[j]
                IN \/ a.score > b.score
                   \/ a.score = b.score /\ a.solveCount > b.solveCount
                   \/ /\ a.score = b.score
                      /\ a.solveCount = b.solveCount
                      /\ a.createdAt < b.createdAt

\* C14: the ranks of a leaderboard answer are exactly 1, 2, ..., k in list
\* order with k <= limit, ties included, and the solveCount of each entry is
\* the number of Solve rows of that principal.
C14_RanksAndCounts ==
    reply.kind = "leaderboard" =>
        /\ Len(reply.items) <= reply.limit
        /\ \A i \in DOMAIN reply.items :
              /\ reply.items[i].rank = i
              /\ reply.items[i].solveCount =
                     Cardinality({k \in DOMAIN solves :
                                     solves[k].userId = reply.items[i].id})

C14_Witness ==
    /\ reply.kind = "leaderboard"
    /\ reply.limit = 2
    /\ Len(reply.items) = 2
    /\ Cardinality(NonAdmins) = 3
    /\ reply.items[1].score = reply.items[2].score
    /\ reply.items[1].solveCount = 1
    /\ reply.items[2].solveCount = 1

\* C15: admins are outside the ranking: a leaderboard answer holds no admin,
\* and the rank answered for a non-admin, in a leaderboard entry or by
\* getUserRank, is the same whatever the scores of the admins are.
C15_AdminsOutsideRanking ==
    /\ reply.kind = "leaderboard" =>
          /\ \A i \in DOMAIN reply.items : ~users[reply.items[i].id].isAdmin
          /\ \A score \in Scores :
                reply.items \in
                    getLeaderboard(WithAdminScore(score), solves, reply.limit)
    /\ (reply.kind = "user" /\ reply.status = 200
          /\ ~users[reply.id].isAdmin) =>
          \A score \in Scores :
              reply.rank = getUserRank(WithAdminScore(score), reply.id)

\* C16: the rank answered for an existing principal is 1 + the number of
\* principals whose score is strictly greater than that principal's, so
\* equal scores get equal ranks and the rank is at least 1.
C16_UserRank ==
    (reply.kind = "user" /\ reply.status = 200) =>
        /\ reply.rank =
               1 + Cardinality({v \in AllUsers :
                                   users[v].score > users[reply.id].score})
        /\ reply.rank >= 1
        /\ \A v \in AllUsers :
              users[v].score = users[reply.id].score =>
                  getUserRank(users, v) = reply.rank

C16_Witness ==
    /\ reply.kind = "user"
    /\ reply.status = 200
    /\ reply.rank = 2
    /\ \E v \in AllUsers \ {reply.id} : users[v].score = users[reply.id].score

(***************************************************************************)
(* Hint deduction (Spec).                                                  *)
(***************************************************************************)

\* C17: the deduction of a hint has no floor at zero: the step of a
\* successful hint request that deducts cost c from a score s leaves the
\* score at exactly s - c, negative results included, and the request then
\* creates the HintUsage row before it answers 200.
C17_NoFloor ==
    /\ [][\A r \in Reqs :
             (req[r].pc = "hintUpdateUserScore" /\ req'[r].pc = "useHint") =>
                 /\ users'[req[r].userId].score =
                        users[req[r].userId].score - req[r].hint.cost
                 /\ \A v \in AllUsers \ {req[r].userId} : users'[v] = users[v]]_vars
    /\ [][\A r \in Reqs :
             (req[r].pc = "useHint" /\ req'[r].pc = "done") =>
                 /\ req'[r].res.status = 200
                 /\ Cardinality({k \in DOMAIN hintUsage' :
                        /\ hintUsage'[k].userId = req[r].userId
                        /\ hintUsage'[k].challengeId = req[r].challengeId
                        /\ hintUsage'[k].hintIndex = req[r].hintIndex}) =
                    Cardinality(HintRows(req[r].userId, req[r].challengeId,
                                         req[r].hintIndex)) + 1]_vars

\* a hint taken at score 0 has driven the score below zero and its row exists
C17_Witness ==
    \E r \in Reqs :
        /\ req[r].kind = "hint"
        /\ req[r].pc = "done"
        /\ req[r].res.status = 200
        /\ users[req[r].userId].score = -req[r].hint.cost
        /\ users[req[r].userId].score < 0
        /\ HintRows(req[r].userId, req[r].challengeId, req[r].hintIndex) # {}

(***************************************************************************)
(* What the read endpoints give away (SpecRead).                           *)
(***************************************************************************)

\* the challenge objects in the answer
ChallengesIn(answer) ==
    IF answer.kind \in {"challenges", "challenge", "userChallenges"}
    THEN {answer.items[i] : i \in DOMAIN answer.items}
    ELSE IF answer.kind = "userSolves"
    THEN {answer.items[i].challenge : i \in DOMAIN answer.items}
    ELSE {}

\* the caller created the challenge or is an admin
OwnerOrAdmin(caller, challenge) ==
    \/ caller = challenge.creatorId
    \/ caller \in AllUsers /\ users[caller].isAdmin

\* C18: no answer of a read endpoint (challenge list, challenge detail, a
\* user's created challenges, a user's solves, leaderboard) to a caller who
\* is neither the creator of a challenge nor an admin holds the flag hash
\* or the flag salt of that challenge.
C18_NoFlagHashOrSalt ==
    /\ \A challenge \in ChallengesIn(reply) :
          ~OwnerOrAdmin(reply.caller, challenge) =>
              /\ "flagHash" \notin DOMAIN challenge
              /\ "flagSalt" \notin DOMAIN challenge
    /\ reply.kind = "leaderboard" =>
          \A i \in DOMAIN reply.items :
              {"flagHash", "flagSalt"} \cap DOMAIN reply.items[i] = {}

\* C19: an anonymous caller gets no unpublished challenge from a challenge
\* read endpoint: the challenge list and the challenge-by-id endpoint
\* answer it only with challenges whose published flag is true.
C19_AnonymousSeesPublishedOnly ==
    (reply.caller = "anon" /\ reply.kind \in {"challenges", "challenge"}) =>
        \A challenge \in ChallengesIn(reply) : challenge.published

(***************************************************************************)
(* Solve creation and score award under failures (SpecFail).               *)
(***************************************************************************)

\* the points of the Solve rows of u, over the challenges C
RECURSIVE SolvedPoints(_, _)
SolvedPoints(u, C) ==
    IF C = {} THEN 0
    ELSE LET c == CHOOSE x \in C : TRUE
         IN Cardinality(SolveRows(u, c)) * challenges[c].points
                + SolvedPoints(u, C \ {c})

\* every request of u so far is a flag submission
OnlySubmits(u) == \A r \in RequestsOf(u) : req[r].kind = "submit"

\* C20: Solve creation and score award are one atomic unit: in every
\* reachable state, those reached when a request fails between store
\* operations included, a Solve row for (P, C) exists exactly when P's
\* score has been increased by points(C).  For a principal whose only
\* requests are submissions the score is then the points of its Solve rows.
C20_SolveWithAward ==
    \A u \in Users : OnlySubmits(u) => users[u].score = SolvedPoints(u, ChalIds)

(***************************************************************************)
(* HintUsage creation and hint deduction under failures (SpecFail).        *)
(***************************************************************************)

\* the sum of pointsDeducted over the HintUsage rows K
RECURSIVE SumDeducted(_)
SumDeducted(K) ==
    IF K = {} THEN 0
    ELSE LET k == CHOOSE x \in K : TRUE
         IN hintUsage[k].pointsDeducted + SumDeducted(K \ {k})

\* what the HintUsage rows of u say u has paid
DeductedPoints(u) ==
    SumDeducted({k \in DOMAIN hintUsage : hintUsage[k].userId = u})

\* every request of u so far is a hint request
OnlyHints(u) == \A r \in RequestsOf(u) : req[r].kind = "hint"

\* C21: HintUsage creation and hint-cost deduction are one atomic unit: in
\* every reachable state, those reached when a store operation fails between
\* the two steps included, P's score has been reduced by the cost of a hint
\* exactly when the HintUsage row for (P, C, i) exists.  For a principal
\* whose only requests are hint requests the score is then minus the
\* pointsDeducted of its HintUsage rows.
C21_HintUsageWithDeduction ==
    \A u \in Users : OnlyHints(u) => users[u].score = -DeductedPoints(u)

(***************************************************************************)
(* The log of submissions (Spec).                                          *)
(***************************************************************************)

\* the Submission row of request r
SubmissionOf(r) ==
    [userId |-> req[r].userId, challengeId |-> req[r].challengeId,
     flagAttempt |-> req[r].flag,
     isCorrect |-> comparePasswords(req[r].flag, req[r].challenge.flagHash)]

\* the verifier has run for r and r has gone past the logging of its attempt
Logged(r) ==
    req[r].kind = "submit" /\ req[r].verified /\ req[r].pc # "createSubmission"

\* C22: for every submission on which the flag verifier is invoked exactly
\* one Submission row is appended, with isCorrect equal to the verdict of
\* the verifier, and before any Solve row or score change of that request;
\* no submit or hint operation modifies or removes a Submission row.
C22_SubmissionLog ==
    /\ [][\/ submissions' = submissions
          \/ \E r \in Reqs :
                /\ req[r].pc = "createSubmission"
                /\ req'[r].pc # "createSubmission"
                /\ submissions' = Append(submissions, SubmissionOf(r))]_vars
    /\ [][\A r \in Reqs :
             (req[r].pc = "createSubmission" /\ req'[r] # req[r]) =>
                 /\ submissions' = Append(submissions, SubmissionOf(r))
                 /\ solves' = solves
                 /\ users' = users]_vars
    /\ [](Len(submissions) = Cardinality({r \in Reqs : Logged(r)}))
    /\ [](\A r \in Reqs :
             (Logged(r) /\ (req[r].pc \in {"createSolve", "updateUserScore"}
                              \/ Awarded(r))) =>
                 \E k \in DOMAIN submissions :
                     submissions[k] = SubmissionOf(r) /\ submissions[k].isCorrect)

\* a wrong and a right attempt have both been logged with their verdicts
\* and answered, and the right one has its Solve row
C22_Witness ==
    /\ Len(submissions) = 2
    /\ ~submissions[1].isCorrect
    /\ submissions[2].isCorrect
    /\ \A r \in Reqs : Logged(r) /\ req[r].pc = "done"
    /\ Len(solves) = 1

(***************************************************************************)
(* Hint requests one after the other (SpecHint).                           *)
(***************************************************************************)

\* the index in the URL is a plain decimal number
Numeric(param) == Len(param) > 0 /\ \A i \in DOMAIN param : param[i] \in Digits

\* the index in the URL is the decimal number of a hint of challenge c
AddressesHint(c, param) ==
    /\ c \in DOMAIN challenges
    /\ Numeric(param)
    /\ parseInt(param) + 1 \in DOMAIN challenges[c].hints

\* parseInt of the index in the URL is the position of a hint of challenge c
ParsesToHint(c, param) ==
    /\ c \in DOMAIN challenges
    /\ parseInt(param) + 1 \in DOMAIN challenges[c].hints

C24_UsedOnce ==
    /\ [][\A r \in Reqs :
             (req[r].pc = "getUserHintUsage" /\ req'[r] # req[r]) =>
                 IF HintRows(req[r].userId, req[r].challengeId,
                             req[r].hintIndex) # {}
                 THEN /\ req'[r].pc = "done"
                      /\ req'[r].res.status = 400
                      /\ hintUsage' = hintUsage
                      /\ users' = users
                 ELSE req'[r].pc = "hintUpdateUserScore"]_vars
    /\ [](\A r \in Reqs :
             (req[r].kind = "hint" /\ req[r].pc = "done") =>
                 /\ req[r].res.status = 200 =>
                       Cardinality(HintRows(req[r].userId, req[r].challengeId,
                                            req[r].hintIndex)) = 1
                 /\ \A u \in Users : users[u].score = -DeductedPoints(u))
    /\ [](\A u \in Users, c \in ChalIds, i \in HintIndexes :
             Cardinality(HintRows(u, c, i)) <= 1)

\* u1 has paid for hints 0 and 1 of c1, once each, and a further request
\* for hint 0 has been answered "already used"
C24_Witness ==
    /\ req[1].kind = "hint"
    /\ req[1].userId = "u1"
    /\ req[1].hintIndex = 0
    /\ req[1].pc = "done"
    /\ req[1].res.status = 400
    /\ Cardinality(HintRows("u1", "c1", 0)) = 1
    /\ Cardinality(HintRows("u1", "c1", 1)) = 1
    /\ users["u1"].score = -30

(***************************************************************************)
(* Requests while the creator edits and deletes the challenge (SpecAdmin). *)
(***************************************************************************)

\* the stored hash that request r read makes the verifier raise an error
VerifierErrorFor(r) ==
    /\ req[r].kind = "submit"
    /\ req[r].challenge # undefined
    /\ comparePasswordsThrows(req[r].flag, req[r].challenge.flagHash)

\* C25: when the flag verifier raises an error (a malformed stored hash)
\* the submission is never treated as correct: no Solve row is created, no
\* score changes, and the caller gets an internal-error answer (500), not
\* correct: true.
C25_VerifierError ==
    /\ [][\A r \in Reqs :
             (/\ VerifierErrorFor(r)
              /\ req[r].pc = "hasSolved"
              /\ ~hasSolved(solves, req[r].userId, req[r].challengeId)
              /\ req'[r] # req[r]) =>
                 /\ req'[r].pc = "done"
                 /\ req'[r].res.status = 500
                 /\ ~req'[r].res.correct
                 /\ solves' = solves
                 /\ users' = users
                 /\ submissions' = submissions]_vars
    /\ [](\A r \in Reqs :
             VerifierErrorFor(r) =>
                 /\ req[r].pc \in {"hasSolved", "done"}
                 /\ ~req[r].res.correct
                 /\ ~req[r].isCorrect)

\* a submission to the published challenge met the malformed hash and was
\* answered 500; there is no Solve row and no score has moved
C25_Witness ==
    \E r \in Reqs :
        /\ VerifierErrorFor(r)
        /\ req[r].challenge.published
        /\ req[r].pc = "done"
        /\ req[r].res.status = 500
        /\ solves = << >>
        /\ \A u \in AllUsers : users[u].score = 0

(***************************************************************************)
(* Store failures and the throttle (SpecFail).                             *)
(***************************************************************************)

\* the counter of the throttle for (u, c), 0 when there is no entry
ThrottleCount(u, c) ==
    IF RateKey(u, c) \in DOMAIN rateLimitStore
    THEN rateLimitStore[RateKey(u, c)].count
    ELSE 0

\* the submissions of u for c that have not ended in an internal error
NotFailed(u, c) ==
    {r \in Reqs : /\ req[r].kind = "submit"
                  /\ req[r].userId = u /\ req[r].challengeId = c
                  /\ ~(req[r].pc = "done" /\ req[r].res.status = 500)}

\* C26: a submission that ends in a store failure (answer 500) consumes no
\* throttle budget: the counter for (P, C) after it is what it was before
\* it, so within one window the counter counts only the submissions that
\* did not end that way.
C26_FailureNotCounted ==
    \A u \in Users, c \in ChalIds :
        ThrottleCount(u, c) = Cardinality(NotFailed(u, c))

(***************************************************************************)
(* Deleting and editing a challenge (SpecAdmin).                           *)
(***************************************************************************)

\* a DELETE /api/challenges/:id request has just been answered
Deleted == reply' # reply /\ reply'.kind = "delete"

\* C27: deleting a challenge cascades to its Solves: after the creator's
\* DELETE of C the challenge is gone and no Solve row references C; in
\* every reachable state every Solve row references an existing challenge;
\* and apart from that cascade no operation updates or deletes a Solve row,
\* so hasSolved(P, C) stays true while C exists.
C27_DeleteCascades ==
    /\ [][Deleted =>
             /\ reply'.status = 204
             /\ reply'.id \notin DOMAIN challenges'
             /\ \A i \in DOMAIN solves' : solves'[i].challengeId # reply'.id]_vars
    /\ [](\A i \in DOMAIN solves : solves[i].challengeId \in DOMAIN challenges)
    /\ [][~Deleted =>
             /\ Len(solves') >= Len(solves)
             /\ \A i \in DOMAIN solves : solves'[i] = solves[i]]_vars

\* the step applies the award of request r, a correct submission of a
\* challenge its principal had no Solve row for before this request
AwardStep(r) ==
    /\ req[r].kind = "submit"
    /\ req[r].pc = "updateUserScore"
    /\ req[r].isCorrect
    /\ Cardinality(SolveRows(req[r].userId, req[r].challengeId)) = 1
    /\ users' = updateUserScore(users, req[r].userId, req[r].challenge.points)

\* the step applies the deduction of hint request r
DeductStep(r) ==
    /\ req[r].kind = "hint"
    /\ req[r].pc = "hintUpdateUserScore"
    /\ users' = updateUserScore(users, req[r].userId, -req[r].hint.cost)

\* C28: a score is changed only by a correct first-time submission and by a
\* successful hint use; every other operation (creating, editing and
\* deleting a challenge, edits of the flag or the point value included,
\* rejected or incorrect submissions, reads of the leaderboard and of a
\* rank) leaves every score and every existing Solve row unchanged.  So
\* every score is the sum of the awards of the submissions answered
\* correct and of the deductions of the hint requests that succeeded or
\* are about to insert their row.
C28_ScoreFrame ==
    /\ [][users' # users => \E r \in Reqs : AwardStep(r) \/ DeductStep(r)]_vars
    /\ [][/\ Len(solves') >= Len(solves)
          /\ \A i \in DOMAIN solves : solves'[i] = solves[i]]_vars
    /\ [](\A u \in Users : users[u].score = SumDelta(RequestsOf(u)))

(***************************************************************************)
(* Score accounting over concurrent requests (Spec).                       *)
(***************************************************************************)

\* no submit or hint request is in flight
Quiescent == \A r \in Reqs : req[r].pc \in {"idle", "done"}

\* C29: in every state with no submit or hint request in flight (in
\* histories with no failed request, no edit of point values or hint costs
\* and no deleted challenge) the score of each principal is the sum of
\* points(C) over its Solve rows minus the sum of pointsDeducted over its
\* HintUsage rows, whatever the interleaving of the requests was.
C29_ScoreAccounting ==
    Quiescent =>
        \A u \in Users :
            users[u].score = SolvedPoints(u, ChalIds) - DeductedPoints(u)

\* both requests of u1, a hint and a correct submission, are over: one
\* Solve row, one HintUsage row, score 100 - 10
C29_Witness ==
    /\ Quiescent
    /\ \A r \in Reqs : req[r].pc = "done" /\ req[r].userId = "u1"
    /\ Cardinality(SolveRows("u1", "c1")) = 1
    /\ Cardinality(HintRows("u1", "c1", 0)) = 1
    /\ users["u1"].score = 90

(***************************************************************************)
(* Disclosure of hint text by the read endpoints (SpecRead).               *)
(***************************************************************************)

\* the zero-based indexes of the hints whose text the object carries
HintTextsIn(challenge) ==
    IF "hints" \notin DOMAIN challenge THEN {}
    ELSE {i - 1 : i \in {j \in DOMAIN challenge.hints :
                            "text" \in DOMAIN challenge.hints[j]}}

\* C30: the text of hint i of challenge C reaches a principal only through
\* a hint use that recorded (or found) a HintUsage row for that principal,
\* challenge and index; no other endpoint's answer contains the text of a
\* hint for a caller who has no such row.
C30_HintTextOnlyPaid ==
    \A challenge \in ChallengesIn(reply) :
        \A i \in HintTextsIn(challenge) :
            HintRows(reply.caller, challenge.id, i) # {}

====
